---- MODULE Spec2Model ----
(***************************************************************************)
(* Model of covasim's plotting layer (covasim/plotting.py) and of the      *)
(* vaccination sub-targeting helpers of tests/devtests/test_variants.py.   *)
(*                                                                         *)
(* Every function of the source is an operator that computes what the code *)
(* computes, and one action that calls it.  A caller is either between two *)
(* calls (op = "idle") or holds the outcome of the call it just made: op   *)
(* names the function, arg its inputs, ret what it returned or raised.     *)
(* The state of the plotting library (pyplot's figure registry, rcParams)  *)
(* and the files written persist across calls.                             *)
(*                                                                         *)
(* Python's None is the string "None" where the other values are strings,  *)
(* the empty sequence <<>> where they are wrapped as <<v>>, and the figure *)
(* number 0 where they are figures (figures are numbered from 1).          *)
(***************************************************************************)
EXTENDS Integers, Sequences, FiniteSets, TLC

VARIABLES
    op,      \* the function the caller last called, or "idle"
    arg,     \* the inputs of that call
    ret,     \* its outcome: [kind |-> "ok", ...] or [kind |-> <exception>, ...]
    figs,    \* pyplot's registry of open figures, the active one last
    nfigs,   \* how many Figure objects were ever created (they are 1..nfigs)
    files,   \* the image files written so far
    rc,      \* pl.rcParams, the entries the code assigns
    axes     \* axes[f]: the labels of the axes of Figure f, open or closed

vars == <<op, arg, ret, figs, nfigs, files, rc, axes>>

plstate == <<figs, nfigs, files, rc, axes>>

(***************************************************************************)
(* Bounds of the model.                                                    *)
(***************************************************************************)
MaxLen == 2        \* longest list of threshold days
NPeople == 2       \* size of the population of vacc_subtarg

\* All sequences over S of length at most n
SeqUpTo(S, n) == UNION {[1..k -> S] : k \in 0..n}

Days == {1, 2}            \* the threshold days the lists are drawn from
Times == {0, 1, 2, 3}     \* the values of time and of sim.t

-----------------------------------------------------------------------------
(***************************************************************************)
(* tests/devtests/test_variants.py: get_ind_of_min_value and vacc_subtarg  *)
(***************************************************************************)

\* f'{time} is not within the list of times'
errormsg_time(time) == <<time, " is not within the list of times">>

\* The for loop of get_ind_of_min_value: place runs over the (0-based)
\* positions of list, ind is <<>> for None and <<place>> once assigned.
RECURSIVE GetIndLoop(_, _, _, _)
GetIndLoop(list, time, place, ind) ==
    IF place >= Len(list) THEN ind
    ELSE GetIndLoop(list, time, place + 1,
                    IF time >= list[place + 1] THEN <<place>> ELSE ind)

\* Mutant: the loop stops at the first entry that is <= time (a break)
RECURSIVE GetIndLoopFirst(_, _, _, _)
GetIndLoopFirst(list, time, place, ind) ==
    IF place >= Len(list) \/ ind # <<>> THEN ind
    ELSE GetIndLoopFirst(list, time, place + 1,
                         IF time >= list[place + 1] THEN <<place>> ELSE ind)

get_ind_first(list, time) ==
    LET ind == GetIndLoopFirst(list, time, 0, <<>>)
    IN  IF ind = <<>>
        THEN [kind |-> "ValueError", msg |-> errormsg_time(time)]
        ELSE [kind |-> "ok", value |-> ind[1]]

\* Mutant: the comparison is strict (time > t)
RECURSIVE GetIndLoopStrict(_, _, _, _)
GetIndLoopStrict(list, time, place, ind) ==
    IF place >= Len(list) THEN ind
    ELSE GetIndLoopStrict(list, time, place + 1,
                          IF time > list[place + 1] THEN <<place>> ELSE ind)

get_ind_strict(list, time) ==
    LET ind == GetIndLoopStrict(list, time, 0, <<>>)
    IN  IF ind = <<>>
        THEN [kind |-> "ValueError", msg |-> errormsg_time(time)]
        ELSE [kind |-> "ok", value |-> ind[1]]

get_ind_of_min_value(list, time) ==
    LET ind == GetIndLoop(list, time, 0, <<>>)
    IN  IF ind = <<>>
        THEN [kind |-> "ValueError", msg |-> errormsg_time(time)]
        ELSE [kind |-> "ok", value |-> ind[1]]

\* sc.findinds(mask): the (0-based) positions at which mask is true, ascending
findinds(mask) ==
    LET Hit(i) == mask[i + 1]
    IN  SelectSeq([i \in 1..Len(mask) |-> i - 1], Hit)

\* Mutant: the vaccinated are not taken out of the mask
subtarg_mask_all(people, age) ==
    [i \in 1..Len(people.age) |-> people.age[i] >= age]

\* (sim.people.age >= age) * ~sim.people.vaccinated, elementwise
subtarg_mask(people, age) ==
    [i \in 1..Len(people.age) |-> people.age[i] >= age /\ ~people.vaccinated[i]]

\* prob*np.ones(n)
prob_ones(prob, n) == [i \in 1..n |-> prob * 1]

vacc_subtarg(sim) ==
    LET got == get_ind_of_min_value(sim.vxsubtarg.days, sim.t)
    IN  IF got.kind # "ok" THEN got
        ELSE LET ind  == got.value
                 age  == sim.vxsubtarg.age[ind + 1]
                 prob == sim.vxsubtarg.prob[ind + 1]
                 inds == findinds(subtarg_mask(sim.people, age))
                 vals == prob_ones(prob, Len(inds))
             IN  [kind |-> "ok", inds |-> inds, vals |-> vals]

\* The inputs of the lookups
AgeThresholds == {18, 65}          \* sim.vxsubtarg.age entries
ProbPercents == {1, 5}             \* sim.vxsubtarg.prob entries, in percent
PeopleAges == {18, 64}             \* sim.people.age entries

\* sim.vxsubtarg: three parallel lists, as the tests configure them
VxSubtargs ==
    UNION {[days : [1..k -> Days], age : [1..k -> AgeThresholds],
            prob : [1..k -> ProbPercents]] : k \in 0..MaxLen}

Peoples == [age : [1..NPeople -> PeopleAges], vaccinated : [1..NPeople -> BOOLEAN]]

Sims == [t : Times, vxsubtarg : VxSubtargs, people : Peoples]

-----------------------------------------------------------------------------
(***************************************************************************)
(* The state after import: no figure, no file, matplotlib's default font   *)
(***************************************************************************)
NoArg == [none |-> TRUE]
NoRet == [kind |-> "none"]

Init ==
    /\ op = "idle"
    /\ arg = NoArg
    /\ ret = NoRet
    /\ figs = <<>>
    /\ nfigs = 0
    /\ axes = <<>>
    /\ files = {}
    /\ rc = [font_size |-> 10, font_family |-> "None"]

\* The caller drops the outcome of the last call and goes on
Return ==
    /\ op # "idle"
    /\ op' = "idle"
    /\ arg' = NoArg
    /\ ret' = NoRet
    /\ UNCHANGED plstate

GetInd ==
    /\ op = "idle"
    /\ \E list \in SeqUpTo(Days, MaxLen), time \in Times :
          /\ op' = "get_ind_of_min_value"
          /\ arg' = [list |-> list, time |-> time]
          /\ ret' = get_ind_of_min_value(list, time)
    /\ UNCHANGED plstate

VaccSubtarg ==
    /\ op = "idle"
    /\ \E sim \in Sims :
          /\ op' = "vacc_subtarg"
          /\ arg' = sim
          /\ ret' = vacc_subtarg(sim)
    /\ UNCHANGED plstate

NextLookup == GetInd \/ VaccSubtarg \/ Return

SpecLookup == Init /\ [][NextLookup]_vars

-----------------------------------------------------------------------------
(***************************************************************************)
(* covasim/plotting.py: the Plotly dashboards                              *)
(***************************************************************************)
MaxInterv == 2     \* longest sim['interventions']
MaxDaysLen == 1    \* longest intervention.days

\* cvd.get_sim_plots(): the default panels of a simulation, title -> result keys
get_sim_plots ==
    << [title |-> "Total counts", keys |-> <<"cum_infections">>],
       [title |-> "Daily counts", keys |-> <<"new_infections", "cum_infections">>] >>

\* cvd.get_scen_plots(): the default panels of a scenario run
get_scen_plots ==
    << [title |-> "Cumulative infections", keys |-> <<"cum_infections">>],
       [title |-> "New infections per day", keys |-> <<"new_infections">>] >>

ResultKeys == {"cum_infections", "new_infections"}

\* The states list of get_individual_states
states ==
    << [name |-> "Healthy",    quantity |-> "None",            color |-> "#a6cee3", value |-> 0],
       [name |-> "Exposed",    quantity |-> "date_exposed",    color |-> "#ff7f00", value |-> 2],
       [name |-> "Infectious", quantity |-> "date_infectious", color |-> "#e33d3e", value |-> 3],
       [name |-> "Recovered",  quantity |-> "date_recovered",  color |-> "#3e89bc", value |-> 4],
       [name |-> "Dead",       quantity |-> "date_dead",       color |-> "#000000", value |-> 5] >>

\* Mutant: only the cell of the day itself is assigned
slice_assign_cell(row, start, value) ==
    [d \in 1..Len(row) |-> IF d - 1 = start THEN value ELSE row[d]]

\* row[start:] = value, with Python's slice rules: a negative start counts
\* from the end, a start past the end assigns nothing
slice_assign(row, start, value) ==
    LET n == Len(row)
        from == IF start >= 0 THEN start
                ELSE IF n + start < 0 THEN 0 ELSE n + start
    IN  [d \in 1..n |-> IF d - 1 >= from THEN value ELSE row[d]]

\* z after the first k entries of states were applied.  A date of people is
\* <<>> when it is undefined (NaN) and <<day>> otherwise; people.defined(date)
\* are the people whose date is not <<>>.
RECURSIVE z_after(_, _, _)
z_after(people, npts, k) ==
    IF k = 0 THEN [i \in 1..Len(people.date_exposed) |-> [d \in 1..npts |-> 0]]
    ELSE LET z == z_after(people, npts, k - 1)
             date == states[k].quantity
         IN  IF date = "None" THEN z
             ELSE [i \in 1..Len(z) |->
                     IF people[date][i] # <<>>
                     THEN slice_assign(z[i], people[date][i][1], states[k].value)
                     ELSE z[i]]

get_individual_states(sim) == z_after(sim.people, sim.npts, Len(states))

\* interv_day > 0 and interv_day < sim['n_days']
\* Mutant: day 0 is taken as inside the simulated range
day_in_range_from0(interv_day, n_days) == interv_day >= 0 /\ interv_day < n_days

day_in_range(interv_day, n_days) == interv_day > 0 /\ interv_day < n_days

\* The line shapes one intervention adds: one per day of interv.days inside
\* the simulated range
day_shapes(days, n_days) ==
    LET Inside(d) == day_in_range(d, n_days)
    IN  SelectSeq(days, Inside)

\* plotly_sim, lines 602-608: no look at interv.do_plot
RECURSIVE sim_shapes(_, _)
sim_shapes(interventions, n_days) ==
    IF interventions = <<>> THEN <<>>
    ELSE LET interv == Head(interventions)
         IN  (IF interv.has_days THEN day_shapes(interv.days, n_days) ELSE <<>>)
                \o sim_shapes(Tail(interventions), n_days)

\* plotly_people, lines 634-641
RECURSIVE people_shapes(_, _)
people_shapes(interventions, n_days) ==
    IF interventions = <<>> THEN <<>>
    ELSE LET interv == Head(interventions)
         IN  (IF interv.has_days
              THEN IF interv.do_plot THEN day_shapes(interv.days, n_days) ELSE <<>>
              ELSE <<>>)
                \o people_shapes(Tail(interventions), n_days)

\* fig.add_shape(dict(type="line", ..., x0=interv_day, x1=interv_day, ...))
line_shape(interv_day) == [type |-> "line", x0 |-> interv_day, x1 |-> interv_day]

\* fig.update_layout(annotations=[...]) replaces the annotations at every
\* shape: the figure ends with the one of the last shape
last_annotation(shape_days) ==
    IF shape_days = <<>> THEN <<>>
    ELSE << [x |-> shape_days[Len(shape_days)], text |-> "Intervention change"] >>

\* The traces of one panel of plotly_sim: a line per key, and the data
\* markers when sim.data has the key (sim.data is <<>> for None, <<keys>> otherwise)
RECURSIVE sim_traces(_, _)
sim_traces(keys, data) ==
    IF keys = <<>> THEN <<>>
    ELSE LET key == Head(keys)
         IN  << [name |-> key, mode |-> "lines"] >>
                \o (IF data # <<>> /\ key \in data[1]
                    THEN << [name |-> key, mode |-> "markers"] >> ELSE <<>>)
                \o sim_traces(Tail(keys), data)

plotly_sim(sim) ==
    LET to_plot == get_sim_plots
        shape_days == sim_shapes(sim.interventions, sim.n_days)
        fig(p) == [title |-> to_plot[p].title,
                   traces |-> sim_traces(to_plot[p].keys, sim.data),
                   shapes |-> [k \in 1..Len(shape_days) |-> line_shape(shape_days[k])],
                   annotations |-> last_annotation(shape_days)]
    IN  [kind |-> "ok", plots |-> [p \in 1..Len(to_plot) |-> fig(p)]]

\* y = (z == state['value']).sum(axis=0)
state_counts(z, npts, value) ==
    [d \in 1..npts |-> Cardinality({i \in 1..Len(z) : z[i][d] = value})]

plotly_people(sim, do_show) ==
    LET z == get_individual_states(sim)
        n == Len(states)
        shape_days == people_shapes(sim.interventions, sim.n_days)
    IN  [kind |-> "ok", shown |-> do_show,
         fig |-> [title |-> "Numbers of people by health state",
                  traces |-> [k \in 1..n |->
                                [name |-> states[n + 1 - k].name,
                                 y |-> state_counts(z, sim.npts, states[n + 1 - k].value)]],
                  shapes |-> [k \in 1..Len(shape_days) |-> line_shape(shape_days[k])],
                  annotations |-> last_annotation(shape_days)]]

\* The inputs of the dashboards.  An intervention either exposes days and
\* do_plot (the Intervention objects) or no days (a plain function).
DayVals == {-1, 0, 1, 2}     \* the entries of intervention.days
NDaysVals == {2}             \* sim['n_days']

Interventions ==
    [has_days : {TRUE}, days : SeqUpTo(DayVals, MaxDaysLen), do_plot : BOOLEAN]
        \cup [has_days : {FALSE}, days : {<<>>}, do_plot : {FALSE}]

DataVals == {<<>>, <<{"cum_infections"}>>}

\* Two people: one never exposed, one who is exposed on day 0, infectious on
\* day 1 and recovers after the last day
DashboardPeople ==
    [date_exposed |-> << <<>>, <<0>> >>, date_infectious |-> << <<>>, <<1>> >>,
     date_recovered |-> << <<>>, <<3>> >>, date_dead |-> << <<>>, <<>> >>]

\* sim.npts is sim['n_days'] + 1
DashboardSims ==
    {[n_days |-> nd, npts |-> nd + 1, interventions |-> iv, data |-> da,
      people |-> DashboardPeople] :
        nd \in NDaysVals, iv \in SeqUpTo(Interventions, MaxInterv), da \in DataVals}

PlotlySim ==
    /\ op = "idle"
    /\ \E sim \in DashboardSims :
          /\ op' = "plotly_sim"
          /\ arg' = [sim |-> sim]
          /\ ret' = plotly_sim(sim)
    /\ UNCHANGED plstate

PlotlyPeople ==
    /\ op = "idle"
    /\ \E sim \in DashboardSims, do_show \in {FALSE} :    \* do_show=False, the default
          /\ sim.data = <<>>
          /\ op' = "plotly_people"
          /\ arg' = [sim |-> sim, do_show |-> do_show]
          /\ ret' = plotly_people(sim, do_show)
    /\ UNCHANGED plstate

NextPlotly == PlotlySim \/ PlotlyPeople \/ Return

\* A date of a person: undefined, before the first day, a day counted from
\* the end, a simulated day, or the day after the last
DateVals == {<<>>, <<-4>>, <<-1>>, <<0>>, <<1>>, <<2>>, <<3>>}

\* One person with any combination of dates, in any order
StatePeople ==
    [date_exposed : {<<d>> : d \in DateVals}, date_infectious : {<<d>> : d \in DateVals},
     date_recovered : {<<d>> : d \in DateVals}, date_dead : {<<d>> : d \in DateVals}]

GetIndividualStates ==
    /\ op = "idle"
    /\ \E people \in StatePeople, npts \in {3} :
          /\ op' = "get_individual_states"
          /\ arg' = [sim |-> [people |-> people, npts |-> npts]]
          /\ ret' = [kind |-> "ok", z |-> get_individual_states(arg'.sim),
                     states |-> states]
    /\ UNCHANGED plstate

NextStates == GetIndividualStates \/ Return

SpecStates == Init /\ [][NextStates]_vars

SpecPlotly == Init /\ [][NextPlotly]_vars

-----------------------------------------------------------------------------
(***************************************************************************)
(* pylab (matplotlib.pyplot), as far as plotting.py drives it.  st is the  *)
(* library's state [figs, nfigs, files, rc]: figs is the registry of open  *)
(* figures in activation order, the active figure last.                    *)
(***************************************************************************)
MaxFigs == 3       \* Figure objects created in one run of the model

PlState == [figs |-> figs, nfigs |-> nfigs, files |-> files, rc |-> rc, axes |-> axes]

Last(seq) == seq[Len(seq)]

Without(seq, x) ==
    LET Keep(y) == y # x
    IN  SelectSeq(seq, Keep)

\* pl.figure(**fig_args): a new Figure, registered and made the active one
pl_figure(st) ==
    [st EXCEPT !.nfigs = @ + 1, !.figs = Append(@, st.nfigs + 1),
               !.axes = Append(@, <<>>)]

\* pl.gcf(): the active figure; pyplot makes one when no figure is open
pl_gcf(st) == IF st.figs = <<>> THEN pl_figure(st) ELSE st

gcf_of(st) == Last(pl_gcf(st).figs)

\* Whether Figure fig has an axis with this label; an axis labelled
\* f'ax{pnum+1}' is written as the number pnum+1
HasAxis(st, fig, label) == \E k \in 1..Len(st.axes[fig]) : st.axes[fig][k] = label

\* pl.subplot(n_rows, n_cols, pnum+1, label=label): an axis of the active
\* figure.  Asked again with the arguments of an axis the figure has, pyplot
\* hands that axis back (the reuse that the comment of line 72 speaks of);
\* otherwise it adds the axis.
pl_subplot(st, label) ==
    LET cur == pl_gcf(st)
        g == Last(cur.figs)
    IN  IF HasAxis(cur, g, label) THEN cur
        ELSE [cur EXCEPT !.axes[g] = Append(@, label)]

\* pl.close(fig): with None the active figure is closed, otherwise fig, when
\* it is still registered
pl_close(st, fig) ==
    IF fig = 0
    THEN IF st.figs = <<>> THEN st
         ELSE [st EXCEPT !.figs = SubSeq(@, 1, Len(@) - 1)]
    ELSE [st EXCEPT !.figs = Without(@, fig)]

\* pl.savefig(fig_path): the active figure is written to fig_path
pl_savefig(st, fig_path) ==
    [pl_gcf(st) EXCEPT !.files = @ \cup {fig_path}]

\* sc.makefilepath(fig_path): the absolute path of fig_path
makefilepath(fig_path) == <<"cwd", fig_path>>

\* The truth value of a do_save given as None, False, 0, True
Truthy(v) == v \notin {"None", "False", "0"}

-----------------------------------------------------------------------------
(***************************************************************************)
(* covasim/plotting.py: helpers of the static plots.  A to_plot argument   *)
(* is <<>> for None and <<odict>> otherwise, an odict being the sequence   *)
(* of its [title, keys] items.                                             *)
(***************************************************************************)

\* np.ceil(n/n_cols), for a positive number of columns
ceil_div(n, n_cols) == (n + n_cols - 1) \div n_cols

\* Mutant: which is validated first, whatever to_plot is
handle_to_plot_strict(which, to_plot, n_cols) ==
    IF which \notin {"sim", "scens"}
    THEN [kind |-> "NotImplementedError", msg |-> <<"which", which>>]
    ELSE LET chosen == IF to_plot # <<>> THEN to_plot[1]
                       ELSE IF which = "sim" THEN get_sim_plots ELSE get_scen_plots
         IN  [kind |-> "ok", to_plot |-> chosen,
              n_rows |-> ceil_div(Len(chosen), n_cols)]

handle_to_plot(which, to_plot, n_cols) ==
    IF to_plot = <<>> /\ which \notin {"sim", "scens"}
    THEN [kind |-> "NotImplementedError", msg |-> <<"which", which>>]
    ELSE LET chosen == IF to_plot # <<>> THEN to_plot[1]
                       ELSE IF which = "sim" THEN get_sim_plots ELSE get_scen_plots
         IN  [kind |-> "ok", to_plot |-> chosen,
              n_rows |-> ceil_div(Len(chosen), n_cols)]

\* create_figs: fig is 0 for None; the figs it returns is <<>> for [] and
\* for None alike, since only sep_figs tells what tidy_up returns
create_figs(st, font_size, font_family, sep_figs, fig) ==
    LET made == IF ~sep_figs /\ fig = 0 THEN pl_figure(st) ELSE st
        adjusted == pl_gcf(made)                    \* pl.subplots_adjust(**args.axis)
        styled == [adjusted EXCEPT
                     !.rc.font_size = font_size,
                     !.rc.font_family = IF font_family # "None" THEN font_family ELSE @]
    IN  [st |-> styled,
         fig |-> IF sep_figs THEN 0
                 ELSE IF fig = 0 THEN Last(made.figs) ELSE fig,
         figs |-> <<>>]

\* Mutant: with sep_figs only the first panel gets a figure of its own
create_subplots_shared(st, figs_list, fig, pnum, sep_figs) ==
    IF sep_figs /\ figs_list = <<>>
    THEN LET made == pl_subplot(pl_figure(st), pnum + 1)
         IN  [st |-> made, figs |-> Append(figs_list, Last(made.figs)),
              ax |-> [fig |-> Last(made.figs), label |-> pnum + 1]]
    ELSE LET sub == pl_subplot(st, pnum + 1)
         IN  [st |-> sub, figs |-> figs_list,
              ax |-> [fig |-> Last(sub.figs), label |-> pnum + 1]]

\* Mutant: the axes of fig are not searched for the label
create_subplots_unlabelled(st, figs_list, fig, pnum, sep_figs) ==
    IF sep_figs
    THEN LET made == pl_subplot(pl_figure(st), pnum + 1)
         IN  [st |-> made, figs |-> Append(figs_list, Last(made.figs)),
              ax |-> [fig |-> Last(made.figs), label |-> pnum + 1]]
    ELSE LET sub == pl_subplot(st, pnum + 1)
         IN  [st |-> sub, figs |-> figs_list,
              ax |-> [fig |-> Last(sub.figs), label |-> pnum + 1]]

\* create_subplots, for the (0-based) panel pnum: fig is 0 for None, and
\* then fig.axes raises and the bare except leaves ax None.  The axis is the
\* one of fig labelled ax<pnum+1> when fig has one; otherwise it is made by
\* pl.subplot in the active figure, which with sep_figs is the figure just
\* made and appended to figs.  ax tells the figure and the label of the
\* axis the panel is drawn on.
create_subplots(st, figs_list, fig, pnum, sep_figs) ==
    LET found == fig # 0 /\ HasAxis(st, fig, pnum + 1)
    IN  IF sep_figs
        THEN LET made == pl_figure(st)
                 sub == IF found THEN made ELSE pl_subplot(made, pnum + 1)
             IN  [st |-> sub, figs |-> Append(figs_list, Last(made.figs)),
                  ax |-> [fig |-> IF found THEN fig ELSE Last(made.figs),
                          label |-> pnum + 1]]
        ELSE LET sub == IF found THEN st ELSE pl_subplot(st, pnum + 1)
             IN  [st |-> sub, figs |-> figs_list,
                  ax |-> [fig |-> IF found THEN fig ELSE Last(sub.figs),
                          label |-> pnum + 1]]

\* plot_data: the scatter of sim.data[key] and its legend entry
plot_data(sim, key) ==
    IF sim.data # <<>> /\ key \in sim.data[1]
    THEN << [kind |-> "scatter", key |-> key], [kind |-> "scatter", key |-> "Data"] >>
    ELSE <<>>

\* A dict is the sequence of its <<key, value>> items in insertion order,
\* every key once
HasKey(d, key) == \E k \in 1..Len(d) : d[k][1] = key

GetItem(d, key) == d[CHOOSE k \in 1..Len(d) : d[k][1] = key][2]

\* d.pop(key): d without the item of key
Pop(d, key) ==
    LET Keep(item) == item[1] # key
    IN  SelectSeq(d, Keep)

\* d[key] = value: a key that is there keeps its place
SetItem(d, key, value) ==
    IF HasKey(d, key)
    THEN [k \in 1..Len(d) |-> IF d[k][1] = key THEN <<key, value>> ELSE d[k]]
    ELSE Append(d, <<key, value>>)

RECURSIVE Update(_, _)
Update(d, items) ==
    IF items = <<>> THEN d
    ELSE Update(SetItem(d, Head(items)[1], Head(items)[2]), Tail(items))

\* sc.mergedicts(default, given): a new dict, given being <<>> for None
mergedicts(default, given) == IF given = <<>> THEN default ELSE Update(default, given[1])

\* handle_args, line 31: args.legend
handle_args_legend(legend_args) == mergedicts(<< <<"loc", "best">> >>, legend_args)

\* Mutant: a popped show_legend is not put back
title_grid_legend_popped(legend_args, show_legend) ==
    LET popped == HasKey(legend_args, "show_legend")
        shown == IF popped THEN GetItem(legend_args, "show_legend") ELSE show_legend
        passed == IF popped THEN Pop(legend_args, "show_legend") ELSE legend_args
    IN  [legend |-> IF Truthy(shown) THEN <<passed>> ELSE <<>>,
         legend_args |-> passed]

\* Mutant: the show_legend parameter decides, whatever legend_args holds
title_grid_legend_parameter(legend_args, show_legend) ==
    LET passed == Pop(legend_args, "show_legend")
    IN  [legend |-> IF Truthy(show_legend) THEN <<passed>> ELSE <<>>,
         legend_args |-> legend_args]

\* title_grid_legend, lines 123-136: legend is <<>> when ax.legend is not
\* called and otherwise holds the keyword arguments of the call of
\* ax.legend; legend_args is the caller's dict as the function leaves it.
\* show_legend is "True" or "False".
title_grid_legend(legend_args, show_legend) ==
    LET popped == HasKey(legend_args, "show_legend")
        shown == IF popped THEN GetItem(legend_args, "show_legend") ELSE show_legend
        passed == IF popped THEN Pop(legend_args, "show_legend") ELSE legend_args
        after == IF popped THEN SetItem(passed, "show_legend", shown) ELSE passed
    IN  [legend |-> IF Truthy(shown) THEN <<passed>> ELSE <<>>,
         legend_args |-> after]

\* plot_sim, lines 215-229: what one reskey adds to the axes.  res.low and
\* res.high are TRUE when the bound is not None.
sim_result_artists(sim, reskey) ==
    LET res == sim.results[reskey]
    IN  (IF res.low /\ res.high
         THEN << [kind |-> "fill_between", key |-> reskey] >> ELSE <<>>)
           \o << [kind |-> "plot", key |-> reskey] >>
           \o plot_data(sim, reskey)

RECURSIVE sim_panel_artists(_, _)
sim_panel_artists(sim, keylabels) ==
    IF keylabels = <<>> THEN <<>>
    ELSE sim_result_artists(sim, Head(keylabels))
            \o sim_panel_artists(sim, Tail(keylabels))

\* The loop of plot_sim over to_plot.enumitems(), from panel pnum (1-based)
\* on; acc is [st, figs, fig, panels, legend_args], legend_args being
\* args.legend.
\* A panel records the legend_args title_grid_legend got (legend_in) and
\* its call of ax.legend.
RECURSIVE sim_panels(_, _, _, _, _)
sim_panels(acc, to_plot, sim, sep_figs, pnum) ==
    IF pnum > Len(to_plot) THEN acc
    ELSE LET sub == create_subplots(acc.st, acc.figs, acc.fig, pnum - 1, sep_figs)
             tgl == title_grid_legend(acc.legend_args, "True")
             panel == [title |-> to_plot[pnum].title,
                       ax |-> sub.ax,
                       artists |-> sim_panel_artists(sim, to_plot[pnum].keys),
                       legend_in |-> acc.legend_args,
                       legend |-> tgl.legend]
         IN  sim_panels([st |-> sub.st, figs |-> sub.figs, fig |-> acc.fig,
                         panels |-> Append(acc.panels, panel),
                         legend_args |-> tgl.legend_args],
                        to_plot, sim, sep_figs, pnum + 1)

\* Mutant: the figure is saved whenever a fig_path is given
tidy_up_path(st, fig, figs_list, sep_figs, do_save, fig_path, do_show, default_name) ==
    LET path == makefilepath(IF fig_path = "None" THEN default_name ELSE fig_path)
        saving == Truthy(do_save) \/ fig_path # "None"
        saved == IF saving THEN pl_savefig(st, path) ELSE st
        done == IF do_show THEN saved ELSE pl_close(saved, fig)
    IN  [st |-> done,
         saved |-> IF saving THEN << [path |-> path, fig |-> gcf_of(st)] >> ELSE <<>>,
         value |-> IF sep_figs THEN [type |-> "list", fig |-> 0, figs |-> figs_list]
                   ELSE [type |-> "Figure", fig |-> fig, figs |-> <<>>]]

\* tidy_up: saving, showing or closing, and the value to return.  pl.show()
\* leaves the registry as it is.
tidy_up(st, fig, figs_list, sep_figs, do_save, fig_path, do_show, default_name) ==
    LET path == makefilepath(IF fig_path = "None" THEN default_name ELSE fig_path)
        saved == IF Truthy(do_save) THEN pl_savefig(st, path) ELSE st
        done == IF do_show THEN saved ELSE pl_close(saved, fig)
    IN  [st |-> done,
         saved |-> IF Truthy(do_save)
                   THEN << [path |-> path, fig |-> gcf_of(st)] >> ELSE <<>>,
         value |-> IF sep_figs THEN [type |-> "list", fig |-> 0, figs |-> figs_list]
                   ELSE [type |-> "Figure", fig |-> fig, figs |-> <<>>]]

\* kw is the record of the keyword arguments of plot_sim and plot_scens
plot_sim(st, sim, kw) ==
    LET h == handle_to_plot("sim", kw.to_plot, kw.n_cols)
    IN  IF h.kind # "ok" THEN [st |-> st, ret |-> h]
        ELSE LET cf == create_figs(st, kw.font_size, kw.font_family, kw.sep_figs, kw.fig)
                 drawn == sim_panels([st |-> cf.st, figs |-> cf.figs, fig |-> cf.fig,
                                      panels |-> <<>>,
                                      legend_args |-> handle_args_legend(kw.legend_args)],
                                     h.to_plot, sim, kw.sep_figs, 1)
                 t == tidy_up(drawn.st, cf.fig, drawn.figs, kw.sep_figs, kw.do_save,
                              kw.fig_path, kw.do_show, "covasim.png")
             IN  [st |-> t.st,
                  ret |-> [kind |-> "ok", value |-> t.value, saved |-> t.saved,
                           panels |-> drawn.panels]]

\* plot_scens, lines 253-268: what the scenarios of one reskey add to the
\* axes, from scenario snum (1-based) on.  ax.fill_between is called for
\* every scenario, whatever low and high are; none_raises tells whether the
\* charting library raises on a bound that is None or draws what it gets.
\* acc is [raised, artists].
RECURSIVE scen_result_artists(_, _, _, _, _)
scen_result_artists(acc, resdata, reskey, snum, none_raises) ==
    IF acc.raised \/ snum > Len(resdata) THEN acc
    ELSE LET scendata == resdata[snum]
             band == [kind |-> "fill_between", key |-> reskey, scen |-> scendata.scenkey]
             line == [kind |-> "plot", key |-> reskey, scen |-> scendata.scenkey]
         IN  IF ~(scendata.low /\ scendata.high) /\ none_raises
             THEN [acc EXCEPT !.raised = TRUE]
             ELSE scen_result_artists(
                      [acc EXCEPT !.artists = @ \o <<band, line>>],
                      resdata, reskey, snum + 1, none_raises)

RECURSIVE scen_panel_artists(_, _, _, _)
scen_panel_artists(acc, scens, reskeys, none_raises) ==
    IF acc.raised \/ reskeys = <<>> THEN acc
    ELSE scen_panel_artists(
             scen_result_artists(acc, scens.results[Head(reskeys)], Head(reskeys),
                                 1, none_raises),
             scens, Tail(reskeys), none_raises)

\* The loop of plot_scens over to_plot.enumitems(); acc is
\* [st, figs, fig, panels, raised, legend_args]; title_grid_legend gets pnum==0
\* as its show_legend
RECURSIVE scen_panels(_, _, _, _, _, _)
scen_panels(acc, to_plot, scens, sep_figs, pnum, none_raises) ==
    IF acc.raised \/ pnum > Len(to_plot) THEN acc
    ELSE LET sub == create_subplots(acc.st, acc.figs, acc.fig, pnum - 1, sep_figs)
             got == scen_panel_artists([raised |-> FALSE, artists |-> <<>>],
                                       scens, to_plot[pnum].keys, none_raises)
             tgl == title_grid_legend(acc.legend_args,
                                      IF pnum = 1 THEN "True" ELSE "False")
             panel == [title |-> to_plot[pnum].title, artists |-> got.artists,
                       ax |-> sub.ax,
                       legend_in |-> acc.legend_args,
                       legend |-> tgl.legend]
         IN  scen_panels([st |-> sub.st, figs |-> sub.figs, fig |-> acc.fig,
                          panels |-> Append(acc.panels, panel),
                          raised |-> got.raised,
                          legend_args |-> tgl.legend_args],
                         to_plot, scens, sep_figs, pnum + 1, none_raises)

plot_scens(st, scens, kw, none_raises) ==
    LET h == handle_to_plot("scens", kw.to_plot, kw.n_cols)
    IN  IF h.kind # "ok" THEN [st |-> st, ret |-> h]
        ELSE LET cf == create_figs(st, kw.font_size, kw.font_family, kw.sep_figs, kw.fig)
                 drawn == scen_panels([st |-> cf.st, figs |-> cf.figs, fig |-> cf.fig,
                                       panels |-> <<>>,
                                       raised |-> FALSE,
                                       legend_args |-> handle_args_legend(kw.legend_args)],
                                      h.to_plot, scens, kw.sep_figs, 1, none_raises)
                 t == tidy_up(drawn.st, cf.fig, drawn.figs, kw.sep_figs, kw.do_save,
                              kw.fig_path, kw.do_show, "covasim_scenarios.png")
             IN  IF drawn.raised
                 THEN [st |-> drawn.st, ret |-> [kind |-> "TypeError"]]
                 ELSE [st |-> t.st,
                       ret |-> [kind |-> "ok", value |-> t.value, saved |-> t.saved,
                                panels |-> drawn.panels]]

\* The truth value of entry.source, <<>> for None and <<person>> otherwise:
\* None and the person 0 are falsy
TruthySource(source) == source # <<>> /\ source[1] # 0

\* Lines 365-379: the entries of detailed that get a tdict in ttlist, an
\* entry being <<>> for None and <<[source, layer]>> otherwise
RECURSIVE transtree_ttlist(_)
transtree_ttlist(detailed) ==
    IF detailed = <<>> THEN <<>>
    ELSE LET entry == Head(detailed)
         IN  (IF entry # <<>> /\ TruthySource(entry[1].source)
              THEN << [layer |-> entry[1].layer, source |-> entry[1].source] >>
              ELSE <<>>)
               \o transtree_ttlist(Tail(detailed))

\* Mutant: the figure of the transmission tree is opened before the check
plot_transtree_figure_first(st, self) ==
    IF self.detailed = <<>>
    THEN [st |-> pl_figure(st),
          ret |-> [kind |-> "ValueError",
                   msg |-> "Please run sim.people.make_detailed_transtree() before calling plotting"]]
    ELSE [st |-> pl_figure(st),
          ret |-> [kind |-> "NameError", name |-> "pd",
                   ttlist |-> transtree_ttlist(self.detailed[1])]]

\* plot_transtree: self.detailed is <<>> for None and <<list>> otherwise.
\* The module never imports pandas (lines 9-15), so line 381 raises
\* NameError for pd once ttlist is built: no table is made of it, nothing is
\* counted and the figure of line 392 is not opened.  ttlist is the list the
\* function had built when it raised.
plot_transtree(st, self) ==
    IF self.detailed = <<>>
    THEN [st |-> st,
          ret |-> [kind |-> "ValueError",
                   msg |-> "Please run sim.people.make_detailed_transtree() before calling plotting"]]
    ELSE [st |-> st,
          ret |-> [kind |-> "NameError", name |-> "pd",
                   ttlist |-> transtree_ttlist(self.detailed[1])]]

-----------------------------------------------------------------------------
(***************************************************************************)
(* The inputs and the calls of the static plots                            *)
(***************************************************************************)
MaxEntries == 2    \* longest detailed transmission tree

PanelA == [title |-> "Infections", keys |-> <<"cum_infections">>]
PanelB == [title |-> "Daily", keys |-> <<"new_infections", "cum_infections">>]

\* to_plot: None, or an odict of one or two panels
ToPlotVals == {<<>>, << <<PanelA>> >>, << <<PanelA, PanelB>> >>, << <<PanelB, PanelA>> >>}

\* A sim whose results carry low and high or lack them (TRUE: not None)
PlotSims ==
    [results : [ResultKeys -> [low : BOOLEAN, high : BOOLEAN]],
     data : {<<>>}, interventions : {<<>>}]

\* The scenarios of the tests; a scenario's low is there or None
ScenKeys == <<"baseline", "pfizer">>

PlotScens ==
    {[results |-> [key \in ResultKeys |->
                     [snum \in 1..Len(ScenKeys) |->
                        [scenkey |-> ScenKeys[snum], low |-> has[key][snum], high |-> TRUE]]]] :
        has \in [ResultKeys -> [1..Len(ScenKeys) -> BOOLEAN]]}

DoSaveVals == {"None", "False", "0", "True"}
FigPathVals == {"None", "results/test.png"}

\* An entry of the detailed transmission tree: <<>> for None, otherwise its
\* source (<<>> for None) and its layer
TreeEntries ==
    {<<>>} \cup {<< [source |-> src, layer |-> layer] >> :
                    src \in {<<>>, <<0>>, <<1>>}, layer \in {"seed_infection", "h"}}

DetailedVals == {<<>>} \cup {<<tree>> : tree \in SeqUpTo(TreeEntries, MaxEntries)}

\* The keyword arguments of a call; the ones left out keep their defaults
Kwargs(to_plots, do_saves, fig_paths) ==
    [to_plot : to_plots, do_save : do_saves, fig_path : fig_paths,
     do_show : BOOLEAN, sep_figs : BOOLEAN, fig : 0..nfigs,
     n_cols : {1}, font_size : {18}, font_family : {"None"}, legend_args : {<<>>}]

\* The call leaves the library in st and the caller with ret
Called(name, inputs, out) ==
    /\ out.st.nfigs <= MaxFigs
    /\ op' = name
    /\ arg' = inputs
    /\ ret' = out.ret
    /\ figs' = out.st.figs
    /\ nfigs' = out.st.nfigs
    /\ axes' = out.st.axes
    /\ files' = out.st.files
    /\ rc' = out.st.rc

\* The calls that pass no figure
NewFig(kwargs) == {kw \in kwargs : kw.fig = 0}

PlotSimCall(sims, kwargs) ==
    /\ op = "idle"
    /\ \E sim \in sims, kw \in kwargs :
          Called("plot_sim", [sim |-> sim, kw |-> kw], plot_sim(PlState, sim, kw))

PlotScensCall(scenss, kwargs) ==
    /\ op = "idle"
    /\ \E scens \in scenss, kw \in kwargs,
          none_raises \in BOOLEAN :
          Called("plot_scens", [scens |-> scens, kw |-> kw],
                 plot_scens(PlState, scens, kw, none_raises))

HandleToPlot ==
    /\ op = "idle"
    /\ \E which \in {"sim", "scens", "msim"}, to_plot \in ToPlotVals, n_cols \in {1, 2} :
          /\ op' = "handle_to_plot"
          /\ arg' = [which |-> which, to_plot |-> to_plot, n_cols |-> n_cols]
          /\ ret' = handle_to_plot(which, to_plot, n_cols)
    /\ UNCHANGED plstate

PlotTranstree ==
    /\ op = "idle"
    /\ \E detailed \in DetailedVals :
          Called("plot_transtree", [detailed |-> detailed],
                 plot_transtree(PlState, [detailed |-> detailed]))

\* A sim and a scenario run with every bound, and a scenario run without
\* any low
SaveSims == {s \in PlotSims : \A key \in ResultKeys : s.results[key].low /\ s.results[key].high}
SaveScens == {s \in PlotScens :
                 \A key \in ResultKeys, snum \in 1..Len(ScenKeys) : s.results[key][snum].low}
NoLowScens == {s \in PlotScens :
                  \A key \in ResultKeys, snum \in 1..Len(ScenKeys) : ~s.results[key][snum].low}

\* The static plots with every figure option, nothing saved
PlotSimFigs == PlotSimCall(SaveSims, Kwargs(ToPlotVals, {"None"}, {"None"}))
PlotScensFigs == PlotScensCall(SaveScens \cup NoLowScens, Kwargs(ToPlotVals, {"None"}, {"None"}))

NextPlot == PlotSimFigs \/ PlotScensFigs \/ HandleToPlot \/ PlotTranstree \/ Return

SpecPlot == Init /\ [][NextPlot]_vars

\* The static plots of every sim and scenario run, each in a figure of its
\* own that is closed at the end
BandKwargs == {kw \in NewFig(Kwargs(ToPlotVals, {"None"}, {"None"})) :
                  ~kw.do_show /\ ~kw.sep_figs}

PlotSimBands == PlotSimCall(PlotSims, BandKwargs)
PlotScensBands == PlotScensCall(PlotScens, BandKwargs)

NextBands == PlotSimBands \/ PlotScensBands \/ Return

SpecBands == Init /\ [][NextBands]_vars

\* The static plots with every saving option
SaveToPlots == {<<>>, << <<PanelA>> >>}

PlotSimSave == PlotSimCall(SaveSims, NewFig(Kwargs(SaveToPlots, DoSaveVals, FigPathVals)))
PlotScensSave == PlotScensCall(SaveScens, NewFig(Kwargs(SaveToPlots, DoSaveVals, FigPathVals)))

NextSave == PlotSimSave \/ PlotScensSave \/ Return

SpecSave == Init /\ [][NextSave]_vars

\* legend_args as a caller gives it: None, or a dict with or without a
\* show_legend entry, before or after another entry
LegendArgsVals ==
    {<<>>, << <<>> >>, << << <<"loc", "upper left">> >> >>}
      \cup {<< << <<"show_legend", v>> >> >> : v \in {"True", "False"}}
      \cup {<< << <<"show_legend", v>>, <<"loc", "upper left">> >> >> : v \in {"True", "False"}}
      \cup {<< << <<"frameon", "False">>, <<"show_legend", v>> >> >> : v \in {"True", "False"}}

LegendKwargs ==
    {[kw EXCEPT !.legend_args = legend_args] :
        kw \in Kwargs(ToPlotVals, {"None"}, {"None"}), legend_args \in LegendArgsVals}

PlotSimLegend == PlotSimCall(SaveSims, NewFig(LegendKwargs))
PlotScensLegend == PlotScensCall(SaveScens, NewFig(LegendKwargs))

\* title_grid_legend on the legend_args of some caller
TitleGridLegend ==
    /\ op = "idle"
    /\ \E given \in LegendArgsVals \ {<<>>}, merged \in BOOLEAN,
          show_legend \in {"True", "False"} :
          LET legend_args == IF merged THEN handle_args_legend(given) ELSE given[1]
          IN  /\ op' = "title_grid_legend"
              /\ arg' = [legend_args |-> legend_args, show_legend |-> show_legend]
              /\ ret' = [kind |-> "ok"] @@ title_grid_legend(legend_args, show_legend)
    /\ UNCHANGED plstate

NextLegend == PlotSimLegend \/ PlotScensLegend \/ TitleGridLegend \/ Return

SpecLegend == Init /\ [][NextLegend]_vars

-----------------------------------------------------------------------------
(***************************************************************************)
(* plot_compare.  A text is the sequence of its characters; df is the      *)
(* sequence of its rows [label, category], label being the index label and *)
(* category <<>> while df has no 'category' column.                        *)
(***************************************************************************)
MaxRows == 4       \* rows of df

\* The keys of mapping, lines 325-330, in the order of the dict
mapping == << <<"c", "u", "m">>, <<"n", "e", "w">>, <<"n">>, <<"r">> >>

other == <<"o", "t", "h", "e", "r">>

\* v.split('_')[0]: the characters of v before its first underscore, all of
\* v when it has none
RECURSIVE split_first(_)
split_first(v) ==
    IF v = <<>> \/ Head(v) = "_" THEN <<>>
    ELSE <<Head(v)>> \o split_first(Tail(v))

InMapping(text) == \E i \in 1..Len(mapping) : mapping[i] = text

\* Whether text starts with prefix
StartsWith(text, prefix) ==
    Len(text) >= Len(prefix) /\ SubSeq(text, 1, Len(prefix)) = prefix

\* Mutant: the label only has to start with a key of mapping
category_of_startswith(v) ==
    IF \E i \in 1..Len(mapping) : StartsWith(v, mapping[i])
    THEN mapping[CHOOSE i \in 1..Len(mapping) :
                    /\ StartsWith(v, mapping[i])
                    /\ \A j \in 1..(i - 1) : ~StartsWith(v, mapping[j])]
    ELSE other

\* Lines 333-337: the category of the index label v
category_of(v) ==
    LET v_type == split_first(v)
    IN  IF InMapping(v_type) THEN v_type ELSE other

\* Lines 331-338: df['category'] = category
with_category(df) ==
    [k \in 1..Len(df) |-> [df[k] EXCEPT !.category = <<category_of(df[k].label)>>]]

\* df[df['category'] == m], line 347: the labels of these rows
rows_of(df, m) ==
    LET Is(row) == row.category = <<m>>
        dfm == SelectSeq(df, Is)
    IN  [k \in 1..Len(dfm) |-> dfm[k].label]

\* The loop of lines 341-352 from the (1-based) key i of mapping on.  Each
\* key gets a new axis of fig, at (2, 2, i) or, for 'r', at (8, 2, 10), and
\* dfm.plot draws its rows there; empty_raises tells whether the plot of a
\* dfm without rows raises or leaves the axis empty.  acc is
\* [st, panels, raised].
RECURSIVE compare_panels(_, _, _, _, _)
compare_panels(acc, df, fig, i, empty_raises) ==
    IF acc.raised \/ i > Len(mapping) THEN acc
    ELSE LET m == mapping[i]
             not_r_eff == m # <<"r">>
             added == [acc.st EXCEPT !.axes[fig] = Append(@, 0)]
             dfm == rows_of(df, m)
             panel == [category |-> m,
                       subplot |-> IF not_r_eff THEN <<2, 2, i>> ELSE <<8, 2, 10>>,
                       rows |-> dfm,
                       legend |-> ~not_r_eff]
         IN  IF dfm = <<>> /\ empty_raises
             THEN [acc EXCEPT !.st = added, !.raised = TRUE]
             ELSE compare_panels([st |-> added,
                                  panels |-> Append(acc.panels, panel),
                                  raised |-> FALSE],
                                 df, fig, i + 1, empty_raises)

\* plot_compare(df, font_size=18, font_family=None, fig=fig); df is the
\* caller's DataFrame as the call leaves it
plot_compare(st, df, fig, empty_raises) ==
    LET cf == create_figs(st, 18, "None", FALSE, fig)
        categorised == with_category(df)
        drawn == compare_panels([st |-> cf.st, panels |-> <<>>, raised |-> FALSE],
                                categorised, cf.fig, 1, empty_raises)
    IN  [st |-> drawn.st,
         ret |-> IF drawn.raised
                 THEN [kind |-> "TypeError", df |-> categorised]
                 ELSE [kind |-> "ok", value |-> [type |-> "Figure", fig |-> cf.fig],
                       df |-> categorised, panels |-> drawn.panels]]

\* The index of a comparison: cum_d, new_d, n_s, r_e, newx_d, n_r_x, t_y
IndexLabels ==
    << <<"c", "u", "m", "_", "d">>, <<"n", "e", "w", "_", "d">>, <<"n", "_", "s">>,
       <<"r", "_", "e">>, <<"n", "e", "w", "x", "_", "d">>,
       <<"n", "_", "r", "_", "x">>, <<"t", "_", "y">> >>

\* The rows of IndexLabels at the positions S, in the order of the index
RECURSIVE RowsAt(_)
RowsAt(S) ==
    IF S = {} THEN <<>>
    ELSE LET k == CHOOSE x \in S : \A y \in S : x <= y
         IN  << [label |-> IndexLabels[k], category |-> <<>>] >> \o RowsAt(S \ {k})

\* A df of up to MaxRows results, without a 'category' column
CompareDfs ==
    {RowsAt(S) : S \in {T \in SUBSET (1..Len(IndexLabels)) : Cardinality(T) <= MaxRows}}

PlotCompare ==
    /\ op = "idle"
    /\ \E df \in CompareDfs, empty_raises \in BOOLEAN :
          Called("plot_compare", [df |-> df, fig |-> 0],
                 plot_compare(PlState, df, 0, empty_raises))

NextCompare == PlotCompare \/ Return

SpecCompare == Init /\ [][NextCompare]_vars

-----------------------------------------------------------------------------
(***************************************************************************)
(* Properties of the lookups (specification SpecLookup)                    *)
(***************************************************************************)

\* The (0-based) positions of list whose entry is <= time
PlacesLE(list, time) == {i \in 0..(Len(list) - 1) : list[i + 1] <= time}

SetMax(S) == CHOOSE m \in S : \A x \in S : x <= m

IsAscending(list) == \A i, j \in 1..Len(list) : i < j => list[i] <= list[j]

\* ret.value is a position of the largest entry of list that is <= time
IsLatestThreshold(list, time, ind) ==
    /\ ind \in PlacesLE(list, time)
    /\ \A j \in PlacesLE(list, time) : list[ind + 1] >= list[j + 1]

\* C1 as stated: whenever some threshold is <= time, get_ind_of_min_value
\* returns the index of the latest (largest) threshold not exceeding time,
\* for every list, sorted or not.  The code violates it on unsorted lists.
C1_Original ==
    (op = "get_ind_of_min_value" /\ PlacesLE(arg.list, arg.time) # {})
        => (ret.kind = "ok" /\ IsLatestThreshold(arg.list, arg.time, ret.value))

\* C1 amended: whenever some threshold is <= time, get_ind_of_min_value
\* returns the largest index i with list[i] <= time; when the list is sorted
\* in ascending order this is the index of the latest threshold not
\* exceeding time.
C1_LastIndexNotExceeding ==
    (op = "get_ind_of_min_value" /\ PlacesLE(arg.list, arg.time) # {})
        => /\ ret.kind = "ok"
           /\ ret.value = SetMax(PlacesLE(arg.list, arg.time))
           /\ IsAscending(arg.list)
                => IsLatestThreshold(arg.list, arg.time, ret.value)

\* A lookup in an unsorted list in which two thresholds are <= time
C1_Witness ==
    /\ op = "get_ind_of_min_value"
    /\ ~IsAscending(arg.list)
    /\ Cardinality(PlacesLE(arg.list, arg.time)) >= 2
    /\ ret.kind = "ok"

\* C2: get_ind_of_min_value raises ValueError, with a message that names the
\* time, exactly when time is smaller than every entry of the list (the empty
\* list included) and returns otherwise; vacc_subtarg raises that ValueError
\* whenever sim.t is before every day of sim.vxsubtarg.days, so also before
\* the first day of an ascending list.
C2_RaisesIffBeforeAll ==
    /\ op = "get_ind_of_min_value"
         => /\ ret.kind \in {"ok", "ValueError"}
            /\ ret.kind = "ValueError"
                 <=> \A i \in 1..Len(arg.list) : arg.time < arg.list[i]
            /\ ret.kind = "ValueError" => ret.msg[1] = arg.time
    /\ op = "vacc_subtarg"
         => LET days == arg.vxsubtarg.days
                raised == ret.kind = "ValueError" /\ ret.msg[1] = arg.t
            IN  /\ (\A i \in 1..Len(days) : arg.t < days[i]) => raised
                /\ (days # <<>> /\ IsAscending(days) /\ arg.t < days[1]) => raised

\* vacc_subtarg called before the first of several configured days
C2_Witness ==
    /\ op = "vacc_subtarg"
    /\ Len(arg.vxsubtarg.days) >= 2
    /\ arg.t < arg.vxsubtarg.days[1]
    /\ ret.kind = "ValueError"

\* C10: when the lookup succeeds, vacc_subtarg returns as inds exactly the
\* people whose age is >= sim.vxsubtarg.age[ind] and who are not vaccinated,
\* each once, and as vals one sim.vxsubtarg.prob[ind] per entry of inds; a
\* vaccinated person is never in inds.
C10_SubtargetUnvaccinated ==
    (op = "vacc_subtarg" /\ PlacesLE(arg.vxsubtarg.days, arg.t) # {})
        => LET ind == SetMax(PlacesLE(arg.vxsubtarg.days, arg.t))
               age == arg.vxsubtarg.age[ind + 1]
               prob == arg.vxsubtarg.prob[ind + 1]
               n == Len(ret.inds)
           IN  /\ ret.kind = "ok"
               /\ {ret.inds[k] : k \in 1..n}
                    = {i \in 0..(NPeople - 1) :
                          arg.people.age[i + 1] >= age /\ ~arg.people.vaccinated[i + 1]}
               /\ \A k, l \in 1..n : k < l => ret.inds[k] < ret.inds[l]
               /\ Len(ret.vals) = n
               /\ \A k \in 1..n : ret.vals[k] = prob
               /\ \A k \in 1..n : ~arg.people.vaccinated[ret.inds[k] + 1]

\* A day on which one person of the target age is vaccinated and another is
\* not, with a probability that differs from the first configured one
C10_Witness ==
    /\ op = "vacc_subtarg"
    /\ ret.kind = "ok"
    /\ Len(ret.inds) >= 1
    /\ ret.vals[1] # arg.vxsubtarg.prob[1]
    /\ \E i \in 1..NPeople :
          /\ arg.people.vaccinated[i]
          /\ \A k \in 1..Len(ret.inds) :
                arg.people.age[i] >= arg.people.age[ret.inds[k] + 1]

-----------------------------------------------------------------------------
(***************************************************************************)
(* Properties of the Plotly dashboards (specification SpecPlotly)          *)
(***************************************************************************)

\* The figures a dashboard call returned
DashboardFigs ==
    IF op = "plotly_sim" THEN {ret.plots[p] : p \in 1..Len(ret.plots)}
    ELSE IF op = "plotly_people" THEN {ret.fig}
    ELSE {}

Range(seq) == {seq[k] : k \in 1..Len(seq)}

\* Whether markers may be drawn for interv: it exposes days and, where the
\* do_plot flag is honoured, has it set
Eligible(interv, honour_do_plot) ==
    interv.has_days /\ (honour_do_plot => interv.do_plot)

\* How many days the eligible interventions expose together
RECURSIVE NumDays(_, _)
NumDays(interventions, honour_do_plot) ==
    IF interventions = <<>> THEN 0
    ELSE (IF Eligible(Head(interventions), honour_do_plot)
          THEN Len(Head(interventions).days) ELSE 0)
            + NumDays(Tail(interventions), honour_do_plot)

\* Every shape of fig marks a day of an eligible intervention, and there are
\* no more shapes than such days
MarkersOnlyFor(fig, interventions, honour_do_plot) ==
    /\ \A k \in 1..Len(fig.shapes) :
          \E interv \in Range(interventions) :
              /\ Eligible(interv, honour_do_plot)
              /\ fig.shapes[k].x0 \in Range(interv.days)
    /\ Len(fig.shapes) <= NumDays(interventions, honour_do_plot)

\* C7 as stated: in plotly_sim and in plotly_people alike, markers are drawn
\* only for interventions that expose a days sequence and have do_plot true;
\* an intervention whose do_plot is false contributes none.  plotly_sim
\* never reads do_plot and violates it.
C7_MarkersOnlyWhenDoPlot ==
    \A fig \in DashboardFigs :
        MarkersOnlyFor(fig, arg.sim.interventions, TRUE)

\* C8: in plotly_sim and plotly_people every line shape marks a day d of an
\* intervention that has a days attribute, with 0 < d < sim['n_days']; a day
\* that is 0, negative or >= n_days gives no shape, and neither does an
\* intervention without days.
C8_MarkersStrictlyInside ==
    \A fig \in DashboardFigs :
        /\ \A k \in 1..Len(fig.shapes) :
              /\ fig.shapes[k].type = "line"
              /\ fig.shapes[k].x1 = fig.shapes[k].x0
              /\ 0 < fig.shapes[k].x0
              /\ fig.shapes[k].x0 < arg.sim.n_days
        /\ MarkersOnlyFor(fig, arg.sim.interventions, FALSE)

\* A dashboard of people with a marker, for a sim that also has a plotted
\* intervention on a day <= 0 or >= n_days
C8_Witness ==
    /\ op = "plotly_people"
    /\ \E fig \in DashboardFigs : Len(fig.shapes) >= 1
    /\ \E interv \in Range(arg.sim.interventions) :
          /\ interv.has_days /\ interv.do_plot
          /\ \E d \in Range(interv.days) : d <= 0 \/ d >= arg.sim.n_days

-----------------------------------------------------------------------------
(***************************************************************************)
(* Properties of the static plots (specifications SpecPlot and SpecSave)   *)
(***************************************************************************)

\* C3 as stated: handle_to_plot raises NotImplementedError whenever which is
\* neither 'sim' nor 'scens', whether to_plot is None or supplied.  The code
\* looks at which only when to_plot is None.
C3_Original ==
    (op = "handle_to_plot" /\ arg.which \notin {"sim", "scens"})
        => ret.kind = "NotImplementedError"

\* C3 amended: handle_to_plot raises NotImplementedError, naming which,
\* exactly when to_plot is None and which is neither 'sim' nor 'scens'; when
\* to_plot is supplied, which is not looked at and the supplied to_plot is
\* returned with its number of rows.
C3_RaisesOnlyForDefaults ==
    op = "handle_to_plot"
        => /\ ret.kind = "NotImplementedError"
                <=> (arg.to_plot = <<>> /\ arg.which \notin {"sim", "scens"})
           /\ ret.kind = "NotImplementedError" => ret.msg = <<"which", arg.which>>
           /\ arg.to_plot # <<>>
                => /\ ret.kind = "ok"
                   /\ ret.to_plot = arg.to_plot[1]
                   /\ ret.n_rows * arg.n_cols >= Len(arg.to_plot[1])
                   /\ (ret.n_rows - 1) * arg.n_cols < Len(arg.to_plot[1])

\* A supplied to_plot handled for a which that is neither 'sim' nor 'scens'
C3_Witness ==
    /\ op = "handle_to_plot"
    /\ arg.which = "msim"
    /\ arg.to_plot # <<>>
    /\ ret.kind = "ok"

\* C4: plot_transtree raises ValueError, telling the caller to run
\* make_detailed_transtree, whenever self.detailed is None, and leaves the
\* plotting state (open figures, files, rcParams) as it was.
C4_TranstreeNeedsDetailed ==
    [][(op' = "plot_transtree" /\ arg'.detailed = <<>>)
          => /\ ret'.kind = "ValueError"
             /\ ret'.msg = "Please run sim.people.make_detailed_transtree() before calling plotting"
             /\ UNCHANGED plstate]_vars

\* plot_transtree has raised for a missing tree while a figure was open
C4_Witness ==
    /\ op = "plot_transtree"
    /\ arg.detailed = <<>>
    /\ ret.kind = "ValueError"
    /\ figs # <<>>

default_name(name) == IF name = "plot_sim" THEN "covasim.png" ELSE "covasim_scenarios.png"

\* The files a call with keyword arguments kw has to write
FilesToWrite(name, kw) ==
    IF Truthy(kw.do_save)
    THEN {makefilepath(IF kw.fig_path = "None" THEN default_name(name) ELSE kw.fig_path)}
    ELSE {}

\* C5: plot_sim and plot_scens write one image when do_save is truthy, to
\* fig_path when the caller gave one and to covasim.png, respectively
\* covasim_scenarios.png, otherwise; when do_save is None, False or 0 they
\* write no file, whatever fig_path is.
C5_SavesWhereAsked ==
    [][(op' \in {"plot_sim", "plot_scens"} /\ ret'.kind = "ok")
          => /\ files' = files \cup FilesToWrite(op', arg'.kw)
             /\ {ret'.saved[k].path : k \in 1..Len(ret'.saved)} = FilesToWrite(op', arg'.kw)
             /\ Len(ret'.saved) <= 1]_vars

\* plot_scens has saved to its default name, and a call with a fig_path
\* and a falsy do_save has left the files alone
C5_Witness ==
    /\ op = "plot_sim"
    /\ arg.kw.do_save = "0"
    /\ arg.kw.fig_path # "None"
    /\ files = {makefilepath("covasim_scenarios.png")}

\* The odict the call plots: the supplied one, or the defaults
PanelsOf(name, kw) ==
    IF kw.to_plot # <<>> THEN kw.to_plot[1]
    ELSE IF name = "plot_sim" THEN get_sim_plots ELSE get_scen_plots

\* Every bound of every scenario result is there
AllBounds(scens) ==
    \A key \in ResultKeys, snum \in 1..Len(ScenKeys) :
        scens.results[key][snum].low /\ scens.results[key][snum].high

\* What a completed call returned, made being the figures the call created:
\* without sep_figs the supplied figure, or a new one; with sep_figs a list
\* of one new figure per panel, in the order of their creation
ReturnsItsFigures(name, kw, value, made) ==
    IF kw.sep_figs
    THEN /\ value.type = "list"
         /\ Len(value.figs) = Len(PanelsOf(name, kw))
         /\ \A k \in 1..Len(value.figs) : value.figs[k] \in made
         /\ \A k, l \in 1..Len(value.figs) : k < l => value.figs[k] < value.figs[l]
         /\ \A k \in 1..Len(value.figs) : value.figs[k] # kw.fig
    ELSE /\ value.type = "Figure"
         /\ IF kw.fig # 0 THEN value.fig = kw.fig ELSE value.fig \in made

\* C6: plot_sim and plot_scens return for every well-formed input; without
\* sep_figs they return the single figure (the caller's when one was passed,
\* otherwise the one the call created), with sep_figs a list of exactly one
\* figure per entry of to_plot, in panel order, each created by the call,
\* whatever fig the caller passed.
C6_ReturnsFigures ==
    [][(op' \in {"plot_sim", "plot_scens"})
          => /\ (op' = "plot_sim" \/ AllBounds(arg'.scens)) => ret'.kind = "ok"
             /\ ret'.kind = "ok"
                  => ReturnsItsFigures(op', arg'.kw, ret'.value, (nfigs + 1)..nfigs')]_vars

\* plot_sim was given a figure and sep_figs and has returned two others
C6_Witness ==
    /\ op = "plot_sim"
    /\ arg.kw.sep_figs
    /\ arg.kw.fig # 0
    /\ ret.kind = "ok"
    /\ Len(ret.value.figs) = 2

\* Whether panel holds an artist of this kind for the result key (of the
\* scenario scen, "" for a sim)
HasArtist(panel, kind, key, scen) ==
    \E k \in 1..Len(panel.artists) :
        /\ panel.artists[k].kind = kind
        /\ panel.artists[k].key = key
        /\ scen # "" => panel.artists[k].scen = scen

\* plot_sim draws every result of every panel as a line, with a band exactly
\* when both its bounds are there
SimBandsIffBothBounds ==
    op = "plot_sim"
        => /\ ret.kind = "ok"
           /\ LET to_plot == PanelsOf(op, arg.kw)
              IN  /\ Len(ret.panels) = Len(to_plot)
                  /\ \A p \in 1..Len(to_plot) : \A key \in Range(to_plot[p].keys) :
                        /\ HasArtist(ret.panels[p], "plot", key, "")
                        /\ HasArtist(ret.panels[p], "fill_between", key, "")
                             <=> (arg.sim.results[key].low /\ arg.sim.results[key].high)

\* C9: in plot_sim and in plot_scens alike a band is drawn for a result if
\* and only if both its low and its high are not None, and a result missing
\* either is plotted as a line only and never makes the call fail.  plot_sim
\* does so (SimBandsIffBothBounds); plot_scens hands low and high of every
\* scenario result to fill_between without looking at them.
C9_Original ==
    /\ SimBandsIffBothBounds
    /\ op = "plot_scens"
         => /\ ret.kind = "ok"
            /\ LET to_plot == PanelsOf(op, arg.kw)
               IN  \A p \in 1..Len(to_plot) : \A key \in Range(to_plot[p].keys) :
                     \A snum \in 1..Len(ScenKeys) :
                        /\ HasArtist(ret.panels[p], "plot", key, ScenKeys[snum])
                        /\ HasArtist(ret.panels[p], "fill_between", key, ScenKeys[snum])
                             <=> (arg.scens.results[key][snum].low
                                    /\ arg.scens.results[key][snum].high)

-----------------------------------------------------------------------------
(***************************************************************************)
(* Further properties of the lookups (specification SpecLookup)            *)
(***************************************************************************)

SetMin(S) == CHOOSE m \in S : \A x \in S : m <= x

\* C11: as the comment of vacc_subtarg documents it, the lookup retrieves the
\* first index whose day is = or < sim.t: whenever some entry of list is
\* <= time, get_ind_of_min_value returns the smallest index i with
\* list[i] <= time.  The loop has no break and returns the largest one.
C11_FirstIndexNotExceeding ==
    (op = "get_ind_of_min_value" /\ PlacesLE(arg.list, arg.time) # {})
        => (ret.kind = "ok" /\ ret.value = SetMin(PlacesLE(arg.list, arg.time)))

-----------------------------------------------------------------------------
(***************************************************************************)
(* Further properties of the static plots (SpecPlot)                       *)
(***************************************************************************)

\* The figures registered with the plotting library
OpenFigs == {figs[k] : k \in 1..Len(figs)}

\* C12: after plot_sim or plot_scens has returned with do_show false, every
\* figure the call created is closed, the per-panel figures of sep_figs
\* included: none of them is left in the registry of the plotting library.
\* tidy_up closes one figure only, fig, or the active one when fig is None.
C12_CreatedFiguresClosed ==
    [][(op' \in {"plot_sim", "plot_scens"} /\ ret'.kind = "ok" /\ ~arg'.kw.do_show)
          => \A f \in (nfigs + 1)..nfigs' : f \notin OpenFigs']_vars

-----------------------------------------------------------------------------
(***************************************************************************)
(* Properties of the legends (specification SpecLegend)                    *)
(***************************************************************************)

\* The keys and values of a dict
Items(d) == {d[k] : k \in 1..Len(d)}

\* ax.legend has got every entry of legend_args but show_legend
LegendGot(legend, legend_args) ==
    legend # <<>>
        => /\ ~HasKey(legend[1], "show_legend")
           /\ Items(legend[1]) = {item \in Items(legend_args) : item[1] # "show_legend"}

\* C13: title_grid_legend returns with the caller's legend_args holding
\* exactly the keys and values it had on entry; a show_legend entry is never
\* passed to ax.legend and is put back with its value, so that every panel of
\* one plot_sim or plot_scens call gets the same legend_args.
C13_LegendArgsRestored ==
    /\ op = "title_grid_legend"
         => /\ Items(ret.legend_args) = Items(arg.legend_args)
            /\ Len(ret.legend_args) = Len(arg.legend_args)
            /\ LegendGot(ret.legend, arg.legend_args)
    /\ (op \in {"plot_sim", "plot_scens"} /\ ret.kind = "ok")
         => \A p \in 1..Len(ret.panels) :
               /\ Items(ret.panels[p].legend_in)
                    = Items(handle_args_legend(arg.kw.legend_args))
               /\ Len(ret.panels[p].legend_in)
                    = Len(handle_args_legend(arg.kw.legend_args))
               /\ LegendGot(ret.panels[p].legend, ret.panels[p].legend_in)

\* Two panels drawn with a legend_args that holds show_legend, which the
\* second panel still got, and a legend made without it
C13_Witness ==
    /\ op = "plot_sim"
    /\ ret.kind = "ok"
    /\ Len(ret.panels) = 2
    /\ HasKey(ret.panels[2].legend_in, "show_legend")
    /\ ret.panels[1].legend # <<>>
    /\ ret.panels[2].legend # <<>>

\* Whether the caller's legend_args (<<>> for None) holds show_legend
GivesShowLegend(legend_args) ==
    legend_args # <<>> /\ HasKey(legend_args[1], "show_legend")

\* C14 as stated: for every legend_args plot_scens calls ax.legend on the
\* first panel and on no later one.  A show_legend entry of legend_args
\* takes the place of pnum == 0.
C14_Original ==
    (op = "plot_scens" /\ ret.kind = "ok")
        => \A p \in 1..Len(ret.panels) : (ret.panels[p].legend # <<>>) <=> (p = 1)

\* C14 amended: when legend_args holds no show_legend entry, plot_scens
\* calls ax.legend on the first panel and on no later one; when it holds
\* one, that entry decides for every panel alike: ax.legend is called on all
\* panels when it is truthy and on none, the first included, when it is not.
C14_LegendOnFirstPanelUnlessGiven ==
    (op = "plot_scens" /\ ret.kind = "ok")
        => \A p \in 1..Len(ret.panels) :
              (ret.panels[p].legend # <<>>)
                 <=> IF GivesShowLegend(arg.kw.legend_args)
                     THEN Truthy(GetItem(arg.kw.legend_args[1], "show_legend"))
                     ELSE p = 1

\* plot_scens has drawn two panels: without show_legend in legend_args the
\* legend is on the first only
C14_Witness ==
    /\ op = "plot_scens"
    /\ ret.kind = "ok"
    /\ Len(ret.panels) = 2
    /\ arg.kw.legend_args # <<>>
    /\ ~GivesShowLegend(arg.kw.legend_args)
    /\ ret.panels[1].legend # <<>>
    /\ ret.panels[2].legend = <<>>

-----------------------------------------------------------------------------
(***************************************************************************)
(* Properties of the axes (specification SpecPlot)                         *)
(***************************************************************************)

\* Figure fig holds an axis labelled ax1 .. axN, N the number of panels
HoldsPanelAxes(fig, n) == \A p \in 1..n : HasAxis(PlState, fig, p)

-----------------------------------------------------------------------------
(***************************************************************************)
(* Properties of plot_compare (specification SpecCompare)                  *)
(***************************************************************************)

\* prefix is the text of label before its first underscore (all of label
\* when it has none)
IsTextBeforeUnderscore(prefix, label) ==
    /\ StartsWith(label, prefix)
    /\ \A k \in 1..Len(prefix) : prefix[k] # "_"
    /\ Len(prefix) = Len(label) \/ label[Len(prefix) + 1] = "_"

\* The category a row is to get
ExpectedCategory(label) ==
    IF \E i \in 1..Len(mapping) : IsTextBeforeUnderscore(mapping[i], label)
    THEN mapping[CHOOSE i \in 1..Len(mapping) : IsTextBeforeUnderscore(mapping[i], label)]
    ELSE other

\* The panels that draw the row of this label
PanelsDrawing(panels, label) ==
    {p \in 1..Len(panels) : \E k \in 1..Len(panels[p].rows) : panels[p].rows[k] = label}

\* C16: plot_compare gives every row of df the category that is the text
\* before the first underscore of its index label when that is one of cum,
\* new, n, r, and other otherwise, and leaves df carrying that column; a
\* completed call has drawn every row of a category other than other in
\* exactly one of the four panels, the one of its category, and the rows of
\* category other in none.  The call completes when every panel has a row.
C16_CompareCategories ==
    op = "plot_compare"
        => /\ Len(ret.df) = Len(arg.df)
           /\ \A k \in 1..Len(arg.df) :
                 /\ ret.df[k].label = arg.df[k].label
                 /\ ret.df[k].category = <<ExpectedCategory(arg.df[k].label)>>
           /\ (\A i \in 1..Len(mapping) : \E k \in 1..Len(arg.df) :
                  ExpectedCategory(arg.df[k].label) = mapping[i])
                => ret.kind = "ok"
           /\ ret.kind = "ok"
                => /\ Len(ret.panels) = Len(mapping)
                   /\ \A p \in 1..Len(mapping) : ret.panels[p].category = mapping[p]
                   /\ \A k \in 1..Len(arg.df) :
                         LET label == arg.df[k].label
                             drawing == PanelsDrawing(ret.panels, label)
                         IN  IF ExpectedCategory(label) = other
                             THEN drawing = {}
                             ELSE /\ Cardinality(drawing) = 1
                                  /\ \A p \in drawing :
                                        ret.panels[p].category = ExpectedCategory(label)

\* A comparison of four rows has been drawn: new_d is in the panel of new,
\* newx_d, which only starts with new, is in none
C16_Witness ==
    /\ op = "plot_compare"
    /\ ret.kind = "ok"
    /\ Len(ret.df) = 4
    /\ PanelsDrawing(ret.panels, <<"n", "e", "w", "_", "d">>) = {2}
    /\ \E k \in 1..4 : ret.df[k] = [label |-> <<"n", "e", "w", "x", "_", "d">>,
                                    category |-> <<other>>]

-----------------------------------------------------------------------------
(***************************************************************************)
(* Further properties of plot_transtree (specification SpecPlot)           *)
(***************************************************************************)

TranstreeTitles ==
    <<"Layer", "Source stage", "Source diagnosed", "Source quarantined",
      "Target quarantined", "Symptomatic source severity">>

\* C17: when self.detailed is not None plot_transtree completes and returns
\* one figure with the six panels Layer, Source stage, Source diagnosed,
\* Source quarantined, Target quarantined, Symptomatic source severity; its
\* only failure is the ValueError for a missing detailed tree.  The function
\* uses pd, a name the module never binds.
C17_TranstreeCompletes ==
    op = "plot_transtree"
        => IF arg.detailed = <<>> THEN ret.kind = "ValueError"
           ELSE /\ ret.kind = "ok"
                /\ ret.value.type = "Figure"
                /\ ret.panels = TranstreeTitles

\* The entries of detailed that are transmissions from a source person in a
\* layer other than seed_infection
Transmissions(detailed) ==
    LET Is(entry) == /\ entry # <<>>
                     /\ entry[1].source # <<>>
                     /\ entry[1].layer # "seed_infection"
        kept == SelectSeq(detailed, Is)
    IN  [k \in 1..Len(kept) |-> [layer |-> kept[k][1].layer, source |-> kept[k][1].source]]

\* C18: the entries plot_transtree takes into its table are, seed infections
\* apart, the transmissions of detailed: every entry with a source person,
\* the person 0 included, and only the empty entries and the entries without
\* a source are left out.  The test of line 367 is the truth value of
\* entry.source, which is false for the person 0.
C18_CountsEverySource ==
    (op = "plot_transtree" /\ arg.detailed # <<>>)
        => LET NotSeed(row) == row.layer # "seed_infection"
           IN  SelectSeq(ret.ttlist, NotSeed) = Transmissions(arg.detailed[1])

-----------------------------------------------------------------------------
(***************************************************************************)
(* Properties of get_individual_states (specification SpecStates)          *)
(***************************************************************************)

StateValues == {states[k].value : k \in 1..Len(states)}

\* C19: in the matrix z of get_individual_states every cell is one of the
\* state values 0, 2, 3, 4, 5 and every person's row is non-decreasing over
\* the days, whatever dates are defined and in whatever order: a person
\* never goes back to a lower state, and after a Dead cell (5) every later
\* cell is Dead.
C19_StatesNeverGoBack ==
    op = "get_individual_states"
        => /\ Len(ret.z) = Len(arg.sim.people.date_exposed)
           /\ \A i \in 1..Len(ret.z) :
                 /\ Len(ret.z[i]) = arg.sim.npts
                 /\ \A d \in 1..Len(ret.z[i]) : ret.z[i][d] \in StateValues
                 /\ \A d, e \in 1..Len(ret.z[i]) :
                       d < e => /\ ret.z[i][d] <= ret.z[i][e]
                                /\ ret.z[i][d] = 5 => ret.z[i][e] = 5

\* A person who is infectious (day 1) before the date of exposure (day 2),
\* recovers after the last day and is dead on day 2: the row is 0, 3, 5
C19_Witness ==
    /\ op = "get_individual_states"
    /\ arg.sim.people.date_exposed = << <<2>> >>
    /\ arg.sim.people.date_infectious = << <<1>> >>
    /\ arg.sim.people.date_recovered = << <<3>> >>
    /\ arg.sim.people.date_dead = << <<2>> >>
    /\ ret.z = << <<0, 3, 5>> >>

====
